---- MODULE Spec2Model ----
(***************************************************************************)
(* A model of marshmallow's core (src/marshmallow/core.py):                *)
(*   - the schema compiler  (_get_declared_fields, SerializerMeta.__new__) *)
(*   - schema instances     (BaseSerializer.__init__, get_fields)          *)
(*   - the marshaler        (marshal, to_data, to_json)                    *)
(* An ordered mapping (OrderedDict) is a sequence of records [k, v] whose  *)
(* keys are pairwise different; the order of the sequence is the order of  *)
(* iteration.                                                              *)
(***************************************************************************)
EXTENDS Integers, Sequences, FiniteSets, TLC

VARIABLES
    bases,        \* compiler: the bases of the class statement being run
    attrs,        \* compiler: the namespace dict handed to SerializerMeta.__new__
    classBody,    \* compiler: the namespace as the class statement built it
    base_fields,  \* compiler: the _base_fields bound to the new class
    defined,      \* compiler: whether SerializerMeta.__new__ has run
    data,         \* marshaler: the serializer's _data
    fields,       \* marshaler: the serializer's fields
    accessed,     \* marshaler: the accessor read last ("none", "data", "json")
    result,       \* marshaler: what that accessor returned or raised
    heap,         \* instances: the field objects, by address
    classes,      \* instances: each Serializer class's _base_fields, name to address
    instances,    \* instances: the serializers constructed, each its class and fields
    returned      \* instances: what the last direct call of get_fields returned

compilerVars == <<bases, attrs, classBody, base_fields, defined>>

marshalVars == <<data, fields, accessed, result>>

instanceVars == <<heap, classes, instances, returned>>

vars == <<compilerVars, marshalVars, instanceVars>>

----------------------------------------------------------------------------
(* Bounds                                                                  *)
MaxBases == 2
MaxAttrs == 2
MaxData == 3
MaxKeys == 2
MaxNestedKeys == 3
RecursionLimit == 12
MaxInstances == 2
MaxHeap == 8

Names == {"a", "b"}

----------------------------------------------------------------------------
(* Sequence helpers                                                        *)

Range(s) == {s[i] : i \in 1..Len(s)}

Keys(m) == [i \in 1..Len(m) |-> m[i].k]

HasKey(m, key) == \E i \in 1..Len(m) : m[i].k = key

IndexOf(m, key) == CHOOSE i \in 1..Len(m) : m[i].k = key

Get(m, key) == m[IndexOf(m, key)].v

UniqueKeys(m) == \A i, j \in 1..Len(m) : m[i].k = m[j].k => i = j

\* OrderedDict.__setitem__: a new key is appended, an existing key keeps its
\* position and takes the new value.
SetItem(m, key, val) ==
    IF HasKey(m, key)
    THEN [m EXCEPT ![IndexOf(m, key)] = [k |-> key, v |-> val]]
    ELSE Append(m, [k |-> key, v |-> val])

\* OrderedDict(pairs): the pairs are inserted one by one, in order.
RECURSIVE OrderedDictFrom(_, _)
OrderedDictFrom(acc, pairs) ==
    IF pairs = <<>> THEN acc
    ELSE OrderedDictFrom(SetItem(acc, Head(pairs).k, Head(pairs).v), Tail(pairs))

OrderedDict(pairs) == OrderedDictFrom(<<>>, pairs)

\* The sequences over S of length at most n.
RECURSIVE SeqsUpTo(_, _)
SeqsUpTo(S, n) ==
    IF n = 0 THEN {<<>>}
    ELSE LET shorter == SeqsUpTo(S, n - 1)
         IN  shorter \cup {Append(s, x) : s \in shorter, x \in S}

----------------------------------------------------------------------------
(* The schema compiler                                                     *)

\* The values a class body can bind a name to.
FieldInstance1 == [kind |-> "field_instance", id |-> "f1"]
FieldClass1 == [kind |-> "field_class", id |-> "FC"]
PlainObject == [kind |-> "object", id |-> "x"]
AttrValues == {FieldInstance1, FieldClass1, PlainObject}

\* issubclass(val, Field) answers for a class and raises TypeError for anything
\* else, in which case isinstance(val, Field) answers.
is_instance_or_subclass(val) ==
    IF val.kind \in {"field_class", "class"}
    THEN val.kind = "field_class"
    ELSE val.kind = "field_instance"

\* A class namespace: a dict with distinct names, here in its iteration order
\* (the order of declaration, as the class statement of Python 3.6 and later
\* builds it).
AttrDicts ==
    {s \in SeqsUpTo([k : Names, v : AttrValues], MaxAttrs) : UniqueKeys(s)}

\* The list comprehension of _get_declared_fields: the field-valued attrs, in
\* the iteration order of attrs.
RECURSIVE DeclaredHere(_)
DeclaredHere(ns) ==
    IF ns = <<>> THEN <<>>
    ELSE IF is_instance_or_subclass(Head(ns).v)
         THEN <<Head(ns)>> \o DeclaredHere(Tail(ns))
         ELSE DeclaredHere(Tail(ns))

\* What attrs holds after the comprehension popped the fields out of it.
RECURSIVE AttrsAfterPop(_)
AttrsAfterPop(ns) ==
    IF ns = <<>> THEN <<>>
    ELSE IF is_instance_or_subclass(Head(ns).v)
         THEN AttrsAfterPop(Tail(ns))
         ELSE <<Head(ns)>> \o AttrsAfterPop(Tail(ns))

\* A base class: one that carries _base_fields (a Serializer class, compiled
\* earlier) or one that does not (object, BaseSerializer, a mixin).
PlainBase == [has_base_fields |-> FALSE, fields |-> <<>>]

SchemaBase(m) == [has_base_fields |-> TRUE, fields |-> m]

FieldValues == {v \in AttrValues : is_instance_or_subclass(v)}

\* The mappings a compiled class can carry: ordered, with distinct keys.
CompiledMappings ==
    {s \in SeqsUpTo([k : Names, v : FieldValues], Cardinality(Names)) : UniqueKeys(s)}

BaseClasses == {PlainBase} \cup {SchemaBase(m) : m \in CompiledMappings}

\* The loop without the reversal: for base_class in bases.
RECURSIVE PrependBases_Forward(_, _)
PrependBases_Forward(bs, declared) ==
    IF bs = <<>> THEN declared
    ELSE IF Head(bs).has_base_fields
         THEN PrependBases_Forward(Tail(bs), Head(bs).fields \o declared)
         ELSE PrependBases_Forward(Tail(bs), declared)

\* The loop over bases[::-1]: each base's items are put in front of what has
\* been gathered so far.
RECURSIVE PrependBases(_, _)
PrependBases(bs, declared) ==
    IF bs = <<>> THEN declared
    ELSE LET base_class == bs[Len(bs)]
             rest == SubSeq(bs, 1, Len(bs) - 1)
         IN  IF base_class.has_base_fields
             THEN PrependBases(rest, base_class.fields \o declared)
             ELSE PrependBases(rest, declared)

\* A compiler that drops an inherited field the class body declares again, so
\* that the overriding field comes with the newly declared ones.
get_declared_fields_OverrideLast(bs, ns) ==
    LET own == DeclaredHere(ns)
        inherited == PrependBases(bs, <<>>)
    IN  OrderedDict(SelectSeq(inherited, LAMBDA p : ~HasKey(own, p.k)) \o own)

get_declared_fields(bs, ns) ==
    OrderedDict(PrependBases(bs, DeclaredHere(ns)))

----------------------------------------------------------------------------
(* The marshaler                                                           *)

\* Source values.
SomeObject == [kind |-> "object", items |-> <<>>]
None == [kind |-> "none", items |-> <<>>]
Str(chars) == [kind |-> "str", items |-> chars]
Dict(keys) == [kind |-> "dict", items |-> keys]
List(elems) == [kind |-> "list", items |-> elems]

Atoms == {SomeObject, None, Str(<<>>), Str(<<"a", "b">>), Dict(<<"a", "b">>)}

\* The source values of n nodes: an atom is one node, a list one node more
\* than its elements together.
RECURSIVE DataOfSize(_), ElemsOfSize(_)
DataOfSize(n) ==
    (IF n = 1 THEN Atoms ELSE {}) \cup {List(s) : s \in ElemsOfSize(n - 1)}

ElemsOfSize(n) ==
    IF n = 0 THEN {<<>>}
    ELSE UNION {{<<x>> \o rest : x \in DataOfSize(m), rest \in ElemsOfSize(n - m)} :
                    m \in 1..n}

DataValues == UNION {DataOfSize(n) : n \in 1..MaxData}

\* The values of a field mapping: a field specification or a nested mapping.
FieldSpec(f) == [kind |-> "field", id |-> f, items |-> <<>>]
Nested(m) == [kind |-> "dict", id |-> "", items |-> m]

FieldIds == {"Raw", "Strict"}

\* The field mappings of n keys, nested ones counted in.
RECURSIVE MappingsOfSize(_), EntriesOfSize(_)
EntriesOfSize(n) ==
    (IF n = 1 THEN {[k |-> name, v |-> FieldSpec(f)] : name \in Names, f \in FieldIds}
     ELSE {})
    \cup {[k |-> name, v |-> Nested(m)] : name \in Names, m \in MappingsOfSize(n - 1)}

MappingsOfSize(n) ==
    IF n = 0 THEN {<<>>}
    ELSE UNION {{s \in {<<e>> \o rest : e \in EntriesOfSize(m),
                                         rest \in MappingsOfSize(n - m)} :
                    UniqueKeys(s)} : m \in 1..n}

FieldMappings == UNION {MappingsOfSize(n) : n \in 0..MaxKeys}

DeepFieldMappings == UNION {MappingsOfSize(n) : n \in 0..MaxNestedKeys}

\* hasattr(obj, "__iter__") and hasattr(obj, "strip").
HasIter(obj) == obj.kind \in {"list", "dict", "str"}
HasStrip(obj) == obj.kind = "str"

\* The test without its string exclusion.
is_iterable_AnyIterable(obj) == HasIter(obj)

is_iterable_but_not_string(obj) == HasIter(obj) /\ ~HasStrip(obj)

\* for d in data: a list yields its elements, a dict its keys, a string its
\* characters, each a string of length one.
Iterate(obj) ==
    IF obj.kind = "list" THEN obj.items
    ELSE [i \in 1..Len(obj.items) |-> Str(<<obj.items[i]>>)]

\* What a call returns or raises, with the calls of Field.output it made.
Returned(val, calls) == [ok |-> TRUE, val |-> val, calls |-> calls]
Raised(err, calls) == [ok |-> FALSE, val |-> err, calls |-> calls]

OutputCall(f, key, obj) == [field |-> f, key |-> key, src |-> obj]

\* Field.output(key, obj) of the two field types of the model: Raw returns
\* the value it finds under key (a default for None), Strict raises for None.
OutputRaises(f, obj) == f = "Strict" /\ obj.kind = "none"

OutputValue(f, key, obj) ==
    [kind |-> "value", field |-> f, key |-> key, src |-> obj]

OutputError(f, key, obj) ==
    [kind |-> "error", field |-> f, key |-> key, src |-> obj]

output(f, key, obj) ==
    IF OutputRaises(f, obj)
    THEN Raised(OutputError(f, key, obj), <<OutputCall(f, key, obj)>>)
    ELSE Returned(OutputValue(f, key, obj), <<OutputCall(f, key, obj)>>)

RecursionError == [kind |-> "error", field |-> "", key |-> "", src |-> None]

\* The source a nested mapping is marshaled against, were it data's attribute.
NestedSource_SubAttribute(obj, key) == [kind |-> "attribute", items |-> <<obj, key>>]

\* marshal(data, v): the source a nested mapping under key is marshaled against.
NestedSource(obj, key) == obj

\* A mapping built in the reverse of the order of its items.
ResultDict_Reversed(pairs) ==
    OrderedDict([i \in 1..Len(pairs) |-> pairs[Len(pairs) + 1 - i]])

\* OrderedDict(items): the result of marshaling one source object.
ResultDict(pairs) == OrderedDict(pairs)

ListResult(elems) == [kind |-> "list", items |-> elems]
DictResult(pairs) == [kind |-> "odict", items |-> ResultDict(pairs)]

\* A comprehension step that drops an element whose marshaling raised.
ListStep_SkipRaised(first, rest) ==
    IF ~rest.ok THEN Raised(rest.val, first.calls \o rest.calls)
    ELSE IF ~first.ok THEN Returned(rest.val, first.calls \o rest.calls)
    ELSE Returned(<<first.val>> \o rest.val, first.calls \o rest.calls)

\* A comprehension step that puts the elements in the reverse order.
ListStep_Reversed(first, rest) ==
    IF ~first.ok THEN first
    ELSE IF ~rest.ok THEN Raised(rest.val, first.calls \o rest.calls)
    ELSE Returned(rest.val \o <<first.val>>, first.calls \o rest.calls)

\* One step of [marshal(d, fields) for d in data]: the element's result goes in
\* front of the results of the elements after it; the first raise ends it.
ListStep(first, rest) ==
    IF ~first.ok THEN first
    ELSE IF ~rest.ok THEN Raised(rest.val, first.calls \o rest.calls)
    ELSE Returned(<<first.val>> \o rest.val, first.calls \o rest.calls)

RECURSIVE marshal(_, _, _), marshal_each(_, _, _), marshal_items(_, _, _)
\* Line 120: the list comprehension over data.
marshal_each(elems, fs, depth) ==
    IF elems = <<>> THEN Returned(<<>>, <<>>)
    ELSE ListStep(marshal(Head(elems), fs, depth), marshal_each(Tail(elems), fs, depth))

\* Lines 121-123: the generator over fields.items().
marshal_items(obj, fs, depth) ==
    IF fs = <<>> THEN Returned(<<>>, <<>>)
    ELSE LET key == Head(fs).k
             v == Head(fs).v
             first == IF v.kind = "dict"
                      THEN marshal(NestedSource(obj, key), v.items, depth)
                      ELSE output(v.id, key, obj)
         IN  IF ~first.ok THEN first
             ELSE LET rest == marshal_items(obj, Tail(fs), depth)
                  IN  IF ~rest.ok THEN Raised(rest.val, first.calls \o rest.calls)
                      ELSE Returned(<<[k |-> key, v |-> first.val]>> \o rest.val,
                                    first.calls \o rest.calls)

marshal(obj, fs, depth) ==
    IF depth > RecursionLimit THEN Raised(RecursionError, <<>>)
    ELSE IF is_iterable_but_not_string(obj)
    THEN LET each == marshal_each(Iterate(obj), fs, depth + 1)
         IN  IF each.ok THEN Returned(ListResult(each.val), each.calls) ELSE each
    ELSE LET items == marshal_items(obj, fs, depth + 1)
         IN  IF items.ok THEN Returned(DictResult(items.val), items.calls) ELSE items

\* BaseSerializer.to_data
to_data == marshal(data, fields, 0)

\* json.dumps of a marshal result, as the tokens of the text.
Token(t, name) == [tok |-> t, name |-> name]

RECURSIVE dumps(_), dumps_pairs(_), dumps_elems(_)
dumps_pairs(pairs) ==
    IF pairs = <<>> THEN <<>>
    ELSE <<Token("key", Head(pairs).k)>> \o dumps(Head(pairs).v)
         \o (IF Len(pairs) > 1 THEN <<Token(",", "")>> ELSE <<>>)
         \o dumps_pairs(Tail(pairs))

dumps_elems(elems) ==
    IF elems = <<>> THEN <<>>
    ELSE dumps(Head(elems))
         \o (IF Len(elems) > 1 THEN <<Token(",", "")>> ELSE <<>>)
         \o dumps_elems(Tail(elems))

dumps(val) ==
    IF val.kind = "odict"
    THEN <<Token("{", "")>> \o dumps_pairs(val.items) \o <<Token("}", "")>>
    ELSE IF val.kind = "list"
    THEN <<Token("[", "")>> \o dumps_elems(val.items) \o <<Token("]", "")>>
    ELSE <<[tok |-> "scalar", name |-> val]>>

\* BaseSerializer.to_json: json.dumps(self.data)
to_json ==
    LET d == to_data
    IN  IF d.ok THEN Returned([kind |-> "text", items |-> dumps(d.val)], d.calls) ELSE d

NotRead == [ok |-> TRUE, val |-> [kind |-> "nothing", items |-> <<>>], calls |-> <<>>]

\* The data property.
ReadData ==
    /\ accessed # "no_instance"
    /\ accessed' = "data"
    /\ result' = to_data
    /\ UNCHANGED <<data, fields>>
    /\ UNCHANGED <<compilerVars, instanceVars>>

\* The json property.
ReadJson ==
    /\ accessed # "no_instance"
    /\ accessed' = "json"
    /\ result' = to_json
    /\ UNCHANGED <<data, fields>>
    /\ UNCHANGED <<compilerVars, instanceVars>>

----------------------------------------------------------------------------
(* Schema instances                                                        *)

\* Field.parent before any serializer is bound: None, readable on a field
\* instance and on a field class alike.
NoParent == 0

\* The field objects the class bodies of the model bind: one field instance
\* and one field class.
DeclaredObjects ==
    <<[kind |-> "field_instance", parent |-> NoParent],
      [kind |-> "field_class", parent |-> NoParent]>>

AddressOf(val) == IF val = FieldInstance1 THEN 1 ELSE 2

\* A compiled mapping with the addresses of its field objects for values.
Compiled(bs, ns) ==
    LET m == get_declared_fields(bs, ns)
    IN  [i \in 1..Len(m) |-> [k |-> m[i].k, v |-> AddressOf(m[i].v)]]

\* The same mapping with the declared values for values again.
AsBase(m) ==
    SchemaBase([i \in 1..Len(m) |->
                   [k |-> m[i].k,
                    v |-> IF m[i].v = 1 THEN FieldInstance1 ELSE FieldClass1]])

\* copy.deepcopy copies an instance and returns a class as it is.
CopiedAtomically(obj) == obj.kind = "field_class"

\* copy.deepcopy(self._base_fields): a new mapping in the same order; an object
\* met a second time gets the copy made the first time (the memo).
RECURSIVE deepcopy_items(_, _, _, _)
deepcopy_items(h, m, memo, acc) ==
    IF m = <<>> THEN [heap |-> h, fields |-> acc]
    ELSE LET key == Head(m).k
             addr == Head(m).v
         IN  IF CopiedAtomically(h[addr])
             THEN deepcopy_items(h, Tail(m), memo, Append(acc, [k |-> key, v |-> addr]))
             ELSE IF \E i \in 1..Len(memo) : memo[i][1] = addr
             THEN LET copy == (CHOOSE i \in 1..Len(memo) : memo[i][1] = addr)
                  IN  deepcopy_items(h, Tail(m), memo,
                                     Append(acc, [k |-> key, v |-> memo[copy][2]]))
             ELSE LET new == Len(h) + 1
                  IN  deepcopy_items(Append(h, h[addr]), Tail(m),
                                     Append(memo, <<addr, new>>),
                                     Append(acc, [k |-> key, v |-> new]))

deepcopy(h, m) == deepcopy_items(h, m, <<>>, <<>>)

\* The loop of get_fields: a field without a parent gets self for parent.
RECURSIVE set_parents(_, _, _)
set_parents(h, m, self) ==
    IF m = <<>> THEN h
    ELSE LET addr == Head(m).v
         IN  IF h[addr].parent = NoParent
             THEN set_parents([h EXCEPT ![addr].parent = self], Tail(m), self)
             ELSE set_parents(h, Tail(m), self)

\* BaseSerializer.get_fields
get_fields(h, cls, self) ==
    LET copied == deepcopy(h, classes[cls])
    IN  [heap |-> set_parents(copied.heap, copied.fields, self),
         fields |-> copied.fields]

\* BaseSerializer.__init__: Serializer subclass cls is called.
Construct(cls) ==
    /\ Len(instances) < MaxInstances
    /\ LET self == Len(instances) + 1
           got == get_fields(heap, cls, self)
       IN  /\ heap' = got.heap
           /\ instances' = Append(instances, [cls |-> cls, fields |-> got.fields])
    /\ UNCHANGED <<classes, returned>>
    /\ UNCHANGED <<compilerVars, marshalVars>>

\* get_fields called again on a constructed serializer.
GetFields(self) ==
    /\ Len(heap) + Len(classes[instances[self].cls]) <= MaxHeap
    /\ LET got == get_fields(heap, instances[self].cls, self)
       IN  /\ heap' = got.heap
           /\ returned' = got.fields
    /\ UNCHANGED <<classes, instances>>
    /\ UNCHANGED <<compilerVars, marshalVars>>

----------------------------------------------------------------------------
(* The class statement                                                     *)

\* SerializerMeta.__new__, run once by each class statement.
DefineClass ==
    /\ ~defined
    /\ base_fields' = get_declared_fields(bases, attrs)
    /\ attrs' = AttrsAfterPop(attrs)
    /\ defined' = TRUE
    /\ UNCHANGED <<bases, classBody>>
    /\ UNCHANGED <<marshalVars, instanceVars>>

----------------------------------------------------------------------------
(* Specifications                                                          *)

\* No serializer at hand: the state of the marshaler while the compiler runs.
NoSerializer ==
    /\ data = None
    /\ fields = <<>>
    /\ accessed = "no_instance"
    /\ result = NotRead

NoClassStatement ==
    /\ bases = <<>>
    /\ attrs = <<>>
    /\ classBody = <<>>
    /\ base_fields = <<>>
    /\ defined = TRUE

NoInstances ==
    /\ heap = <<>>
    /\ classes = <<>>
    /\ instances = <<>>
    /\ returned = <<>>

\* The class statement of one Serializer subclass, its bases compiled before.
InitCompile ==
    /\ bases \in SeqsUpTo(BaseClasses, MaxBases)
    /\ attrs \in AttrDicts
    /\ classBody = attrs
    /\ base_fields = <<>>
    /\ defined = FALSE
    /\ NoSerializer
    /\ NoInstances

NextCompile == DefineClass

SpecCompile == InitCompile /\ [][NextCompile]_vars

\* One serializer, its accessors read any number of times.
InitMarshal ==
    /\ data \in DataValues
    /\ fields \in FieldMappings
    /\ accessed = "none"
    /\ result = NotRead
    /\ NoClassStatement
    /\ NoInstances

NextMarshal == ReadData \/ ReadJson

SpecMarshal == InitMarshal /\ [][NextMarshal]_vars

\* One source object against the deeper field mappings.
InitNested ==
    /\ data \in Atoms
    /\ fields \in DeepFieldMappings
    /\ accessed = "none"
    /\ result = NotRead
    /\ NoClassStatement
    /\ NoInstances

SpecNested == InitNested /\ [][NextMarshal]_vars

\* Two Serializer classes, the second derived from the first.
InitInstances ==
    /\ heap = DeclaredObjects
    /\ \E bodyA, bodyB \in AttrDicts :
           LET A == Compiled(<<PlainBase>>, bodyA)
           IN  classes = <<A, Compiled(<<AsBase(A)>>, bodyB)>>
    /\ instances = <<>>
    /\ returned = <<>>
    /\ NoClassStatement
    /\ NoSerializer

NextInstances ==
    \/ \E cls \in 1..Len(classes) : Construct(cls)
    \/ \E self \in 1..Len(instances) : GetFields(self)

SpecInstances == InitInstances /\ [][NextInstances]_vars

----------------------------------------------------------------------------
(* Claims about the marshaler                                              *)

\* The ordered key-value results in a value: the value itself, or those in the
\* elements of a sequence.
RECURSIVE ResultsIn(_)
ResultsIn(val) ==
    IF val.kind = "list"
    THEN UNION {ResultsIn(val.items[i]) : i \in 1..Len(val.items)}
    ELSE {val}

\* The source objects in a value, in the order of iteration.
RECURSIVE SourcesIn(_)
RECURSIVE Flatten(_)
Flatten(ss) == IF ss = <<>> THEN <<>> ELSE Head(ss) \o Flatten(Tail(ss))

SourcesIn(obj) ==
    IF obj.kind = "list"
    THEN Flatten([i \in 1..Len(obj.items) |-> SourcesIn(obj.items[i])])
    ELSE IF obj.kind = "dict"
    THEN [i \in 1..Len(obj.items) |-> Str(<<obj.items[i]>>)]
    ELSE <<obj>>

\* The (key, field) pairs of a field mapping, nested mappings gone into, in
\* mapping order.
RECURSIVE LeafFields(_)
LeafFields(fs) ==
    Flatten([i \in 1..Len(fs) |->
                IF fs[i].v.kind = "dict" THEN LeafFields(fs[i].v.items)
                ELSE <<[k |-> fs[i].k, f |-> fs[i].v.id]>>])

\* What one source object is to become: every field's output under its key,
\* a nested mapping's projection of the same object under the nesting key.
RECURSIVE Projection(_, _)
Projection(obj, fs) ==
    [kind |-> "odict",
     items |-> [i \in 1..Len(fs) |->
                   [k |-> fs[i].k,
                    v |-> IF fs[i].v.kind = "dict"
                          THEN Projection(obj, fs[i].v.items)
                          ELSE OutputValue(fs[i].v.id, fs[i].k, obj)]]]

\* C1: every ordered key-value result that .data yields has exactly the keys
\* of the field mapping, in the mapping's order.
C1_KeyOrder ==
    (accessed = "data" /\ result.ok) =>
        \A r \in ResultsIn(result.val) :
            r.kind = "odict" /\ Keys(r.items) = Keys(fields)

\* A sequence of two source objects against two fields, the key "b" first.
C1_Witness ==
    /\ accessed = "data"
    /\ result.ok
    /\ data.kind = "list"
    /\ Len(data.items) = 2
    /\ Keys(fields) = <<"b", "a">>
    /\ Cardinality(ResultsIn(result.val)) = 2

\* C4: marshaling a list of N values yields a sequence of N results, the i-th
\* the result of marshaling the i-th value, whenever every value can be
\* marshaled.
C4_SequenceDistribution ==
    (accessed = "data" /\ data.kind = "list") =>
        LET each == [i \in 1..Len(data.items) |-> marshal(data.items[i], fields, 0)]
        IN  (\A i \in 1..Len(each) : each[i].ok) =>
                /\ result.ok
                /\ result.val.kind = "list"
                /\ Len(result.val.items) = Len(data.items)
                /\ \A i \in 1..Len(each) : result.val.items[i] = each[i].val
                /\ \A i \in 1..Len(each) :
                       data.items[i].kind \in {"object", "none", "str"} =>
                           result.val.items[i] = Projection(data.items[i], fields)

\* A list of two values with different results, one of them itself a list.
C4_Witness ==
    /\ accessed = "data"
    /\ result.ok
    /\ data.kind = "list"
    /\ Len(data.items) = 2
    /\ data.items[1].kind = "object"
    /\ data.items[2].kind = "list"
    /\ fields # <<>>
    /\ result.val.items[1] # result.val.items[2]

\* C5: a dict given as the source object is marshaled as one source object:
\* the result is a single ordered mapping, each field's output taken from the
\* whole dict.
C5_DictIsOneSource ==
    (accessed = "data" /\ data.kind = "dict") =>
        result.ok /\ result.val = Projection(data, fields)

\* C6: a string is marshaled as one source object: one ordered mapping, every
\* field's output called exactly once, on the whole string.
C6_StringIsOneSource ==
    (accessed = "data" /\ data.kind = "str") =>
        /\ result.ok
        /\ result.val.kind = "odict"
        /\ Keys(result.val.items) = Keys(fields)
        /\ result.calls
               = [i \in 1..Len(LeafFields(fields)) |->
                     OutputCall(LeafFields(fields)[i].f, LeafFields(fields)[i].k, data)]

\* A string of two characters against two fields.
C6_Witness ==
    /\ accessed = "data"
    /\ data.kind = "str"
    /\ Len(data.items) = 2
    /\ Len(fields) = 2
    /\ Len(result.calls) = 2

\* A Strict field meets the source None.
MustRaise ==
    /\ \E i \in 1..Len(LeafFields(fields)) : LeafFields(fields)[i].f = "Strict"
    /\ \E i \in 1..Len(SourcesIn(data)) : SourcesIn(data)[i].kind = "none"

RaisingCalls ==
    {i \in 1..Len(result.calls) :
        OutputRaises(result.calls[i].field, result.calls[i].src)}

\* C8: if a field's output raises, .data and .json raise that very error and
\* return nothing; no raise is caught, and nothing is marshaled after it.
C8_ErrorPropagation ==
    (accessed \in {"data", "json"}) =>
        /\ MustRaise <=> ~result.ok
        /\ result.ok => RaisingCalls = {}
        /\ ~result.ok =>
               LET last == result.calls[Len(result.calls)]
               IN  /\ RaisingCalls = {Len(result.calls)}
                   /\ result.val = OutputError(last.field, last.key, last.src)

\* .json of a sequence whose second element makes a field raise, after the
\* first element was marshaled.
C8_Witness ==
    /\ accessed = "json"
    /\ ~result.ok
    /\ data.kind = "list"
    /\ Len(data.items) = 2
    /\ data.items[1].kind = "object"
    /\ data.items[2].kind = "none"
    /\ Len(result.calls) >= 2

----------------------------------------------------------------------------
(* Claims about schema instances                                           *)

Addresses(m) == {m[i].v : i \in 1..Len(m)}

TemplateAddresses == UNION {Addresses(classes[c]) : c \in 1..Len(classes)}

\* C7: constructing serializers and calling get_fields leaves the compiled
\* templates and their field specifications as they were (no parent set on
\* them), and no two serializers share a field specification: their mappings
\* are equal in structure and distinct as objects.
C7_InstanceIsolation ==
    /\ \A a \in TemplateAddresses : heap[a] = DeclaredObjects[a]
    /\ \A i \in 1..Len(instances) :
           /\ Keys(instances[i].fields) = Keys(classes[instances[i].cls])
           /\ Addresses(instances[i].fields) \cap TemplateAddresses = {}
           /\ \A j \in 1..Len(instances) :
                  i # j => Addresses(instances[i].fields)
                               \cap Addresses(instances[j].fields) = {}

\* C9: once a serializer is constructed, every field specification of its
\* mapping has that serializer for parent.
C9_ParentIsOwner ==
    \A i \in 1..Len(instances) :
        \A a \in Addresses(instances[i].fields) : heap[a].parent = i

----------------------------------------------------------------------------
(* Claims about the schema compiler                                        *)

\* The (name, field) pairs of the bases that carry a compiled mapping, base by
\* base in the order the bases are listed.
RECURSIVE InheritedPairs(_)
InheritedPairs(bs) ==
    IF bs = <<>> THEN <<>>
    ELSE (IF Head(bs).has_base_fields THEN Head(bs).fields ELSE <<>>)
         \o InheritedPairs(Tail(bs))

\* The fields the class body declares, in declaration order.
OwnPairs ==
    SelectSeq(classBody, LAMBDA p : p.v.kind \in {"field_instance", "field_class"})

AllPairs == InheritedPairs(bases) \o OwnPairs

FirstPositions(c) == {i \in 1..Len(c) : \A j \in 1..(i - 1) : c[j].k # c[i].k}

LastPosition(c, key) ==
    CHOOSE i \in 1..Len(c) : c[i].k = key /\ \A j \in (i + 1)..Len(c) : c[j].k # key

\* The keys of c without repetition, each at the place of its first occurrence.
DistinctKeys(c) ==
    LET fp == FirstPositions(c)
    IN  [i \in 1..Cardinality(fp) |->
            c[CHOOSE p \in fp : Cardinality({q \in fp : q <= p}) = i].k]

\* C2: the compiled mapping is the bases' mappings in the order the bases are
\* listed followed by the newly declared fields in declaration order; a name
\* that recurs keeps the position of its first occurrence and takes the value
\* of its last occurrence.
C2_CompiledOrder ==
    defined =>
        /\ Keys(base_fields) = DistinctKeys(AllPairs)
        /\ \A i \in 1..Len(base_fields) :
               base_fields[i].v
                   = AllPairs[LastPosition(AllPairs, base_fields[i].k)].v

\* Two bases that both carry fields, fields declared in the body, and a name
\* bound more than once to different fields.
C2_Witness ==
    /\ defined
    /\ Len(bases) = 2
    /\ \A i \in 1..2 : bases[i].has_base_fields /\ bases[i].fields # <<>>
    /\ Keys(bases[1].fields) # Keys(bases[2].fields)
    /\ OwnPairs # <<>>
    /\ Len(base_fields) = 2
    /\ \E i, j \in 1..Len(AllPairs) :
           i < j /\ AllPairs[i].k = AllPairs[j].k /\ AllPairs[i].v # AllPairs[j].v

InheritedKeys == DistinctKeys(InheritedPairs(bases))

OwnKeys == Keys(OwnPairs)

\* The names the class body declares again although a base already has them.
Overridden == Range(InheritedKeys) \cap Range(OwnKeys)

PositionIn(keys, key) == CHOOSE i \in 1..Len(keys) : keys[i] = key

\* C3 as stated: a field that overrides an inherited one is appended after the
\* inherited fields, at the place of its own declaration among the new fields.
C3_OverrideAppended ==
    (defined /\ Overridden # {}) =>
        Keys(base_fields)
            = SelectSeq(InheritedKeys, LAMBDA n : n \notin Overridden) \o OwnKeys

\* C3, amended: a field that overrides an inherited one stays at the position
\* the inherited field had and carries the overriding field.
C3_OverrideInPlace ==
    defined =>
        \A n \in Overridden :
            /\ IndexOf(base_fields, n) = PositionIn(InheritedKeys, n)
            /\ Get(base_fields, n) = Get(OwnPairs, n)

\* An inherited field that is not the last of the inherited ones is overridden
\* by a different field.
C3_Witness ==
    /\ defined
    /\ \E n \in Overridden :
           /\ PositionIn(InheritedKeys, n) < Len(InheritedKeys)
           /\ IndexOf(base_fields, n) = 1
           /\ Get(OwnPairs, n) # Get(OrderedDict(InheritedPairs(bases)), n)

====
